---- MODULE Spec2Model ----
(***************************************************************************)
(* Model of src/src/normalizer.ts: the normalizer that turns a JSX         *)
(* presentation tree into the internal nodes handed to pptxgenjs.          *)
(*                                                                         *)
(* Every function of the file is a pure function; each becomes an operator *)
(* that computes what the TypeScript computes.  The state machine is a     *)
(* caller that invokes one exported function on one input (Call... action) *)
(* and then takes the result (Return).                                     *)
(*                                                                         *)
(* JavaScript values.  A primitive is the record [typeof, num, str].  An   *)
(* object is a TLA+ record whose DOMAIN is the set of the object's own     *)
(* keys, so that "key present with value undefined" and "key absent" are   *)
(* different objects, exactly as for the object spread of the source.      *)
(***************************************************************************)
EXTENDS Integers, Sequences, FiniteSets, TLC

VARIABLES fn, arg, ret
vars == <<fn, arg, ret>>

----------------------------------------------------------------------------
(* Bounds of the model *)

\* alpha fractions are the rationals n / AlphaDen, n in 0..AlphaDen
AlphaDen == 64
\* coordinate strings have at most MaxStrLen characters
MaxStrLen == 3
\* arrays of text children have at most MaxArrayLen elements
MaxArrayLen == 2
\* a presentation has at most MaxChildren top-level children
MaxChildren == 3

----------------------------------------------------------------------------
(* JavaScript primitives and objects *)

JSNum(n) == [typeof |-> "number", num |-> n, str |-> ""]
JSStr(s) == [typeof |-> "string", num |-> 0, str |-> s]
JSBool(b) == [typeof |-> "boolean", num |-> IF b THEN 1 ELSE 0, str |-> ""]
Undefined == [typeof |-> "undefined", num |-> 0, str |-> ""]
\* typeof null is "object"; str tells it apart from the other values
Null == [typeof |-> "object", num |-> 0, str |-> "null"]
JSTrue == JSBool(TRUE)

\* ToBoolean: undefined, null, false, 0 and "" are falsy
Truthy(v) ==
  CASE v.typeof = "undefined" -> FALSE
    [] v.typeof = "object" -> FALSE
    [] v.typeof = "boolean" -> v.num = 1
    [] v.typeof = "number" -> v.num # 0
    [] v.typeof = "string" -> v.str # ""

\* v ?? d
Nullish(v) == v.typeof = "undefined" \/ v = Null

\* o.k : undefined when o has no own key k
Get(o, k) == IF k \in DOMAIN o THEN o[k] ELSE Undefined

\* the object {}
EmptyObject == [k \in {} |-> Undefined]

\* {...a, ...b} : b's own keys win, a's fill the rest
Spread(a, b) == b @@ a

\* const {k1, ..., ...rest} = o : the own keys of o other than taken
Rest(o, taken) == [k \in (DOMAIN o \ taken) |-> o[k]]

Digits == <<"0", "1", "2", "3", "4", "5", "6", "7", "8", "9">>

RECURSIVE NatToString(_)
\* Number.prototype.toString for a natural number
NatToString(n) ==
  IF n < 10 THEN Digits[n + 1]
  ELSE NatToString(n \div 10) \o Digits[(n % 10) + 1]

\* x.toString() for a string or a number
toString(v) ==
  IF v.typeof = "string" THEN v.str
  ELSE IF v.num < 0 THEN "-" \o NatToString(0 - v.num) ELSE NatToString(v.num)

\* what a function call gives back: a value or a thrown error
Returned(v) == [ok |-> TRUE, value |-> v]
Thrown(name, message) == [ok |-> FALSE, error |-> name, message |-> message]

----------------------------------------------------------------------------
(* The color library: Color(colorString), .hex() and .alpha() *)

\* the colors of the model: red, black, and a colour with hex letters
Palette == {<<255, 0, 0>>, <<0, 0, 0>>, <<18, 171, 205>>}

\* the CSS text of a colour with channels rgb and alpha n / AlphaDen
ColorText(rgb, n) ==
  "rgba(" \o NatToString(rgb[1]) \o "," \o NatToString(rgb[2]) \o ","
    \o NatToString(rgb[3]) \o "," \o NatToString(n) \o "/"
    \o NatToString(AlphaDen) \o ")"

ColorSpace == [rgb : Palette, alpha : 0..AlphaDen]

\* the color strings the model's inputs use
ColorStrings == {ColorText(c.rgb, c.alpha) : c \in ColorSpace}

\* Color(colorString): the parsed colour whose text is colorString
ColorParse == [s \in ColorStrings |->
                 CHOOSE c \in ColorSpace : ColorText(c.rgb, c.alpha) = s]
Color(colorString) == ColorParse[colorString]

HexDigits == <<"0", "1", "2", "3", "4", "5", "6", "7",
               "8", "9", "A", "B", "C", "D", "E", "F">>
HexByte(n) == HexDigits[(n \div 16) + 1] \o HexDigits[(n % 16) + 1]

\* clr.hex(): "#RRGGBB"
ColorHex(clr) == "#" \o HexByte(clr.rgb[1]) \o HexByte(clr.rgb[2]) \o HexByte(clr.rgb[3])

\* s.substring(1)
Substring1(s) == SubSeq(s, 2, Len(s))

UpperOf(c) ==
  CASE c = "a" -> "A" [] c = "b" -> "B" [] c = "c" -> "C"
    [] c = "d" -> "D" [] c = "e" -> "E" [] c = "f" -> "F"
    [] OTHER -> c

RECURSIVE ToUpperCase(_)
\* s.toUpperCase(), on the characters a hex string is made of
ToUpperCase(s) ==
  IF s = "" THEN ""
  ELSE UpperOf(SubSeq(s, 1, 1)) \o ToUpperCase(SubSeq(s, 2, Len(s)))

\* a variant that truncates: Math.floor(num / den)
MathRound_Floor(num, den) == num \div den

\* Math.round(num / den) for num >= 0, den > 0: floor(x + 1/2)
MathRound(num, den) == (2 * num + den) \div (2 * den)

normalizeHexColor(colorString) ==
  ToUpperCase(Substring1(ColorHex(Color(colorString))))

\* the result is a string (typeof "string") or the ComplexColor object
normalizeHexOrComplexColor(colorString) ==
  LET clr == Color(colorString)
      hexColor == ToUpperCase(Substring1(ColorHex(clr)))
  IN IF clr.alpha = AlphaDen
     THEN [typeof |-> "string", str |-> hexColor]
     ELSE [typeof |-> "object", type |-> "solid", color |-> hexColor,
           alpha |-> 100 - MathRound(clr.alpha * 100, AlphaDen)]

----------------------------------------------------------------------------
(* normalizeCoordinate *)

IsDigit(c) == c \in {"0", "1", "2", "3", "4", "5", "6", "7", "8", "9"}

\* a variant without the anchors, /\d+%/ : a digit followed by "%" anywhere
PERCENTAGE_REGEXP_Unanchored(s) ==
  \E k \in 1..(Len(s) - 1) :
    IsDigit(SubSeq(s, k, k)) /\ SubSeq(s, k + 1, k + 1) = "%"

\* PERCENTAGE_REGEXP.test(s) for /^\d+%$/ : one or more digits, then "%",
\* then the end of the string
PERCENTAGE_REGEXP(s) ==
  \E k \in 1..Len(s) :
    /\ \A i \in 1..k : IsDigit(SubSeq(s, i, i))
    /\ Len(s) = k + 1
    /\ SubSeq(s, k + 1, k + 1) = "%"

normalizeCoordinate(x, default) ==
  IF x.typeof = "string"
  THEN IF ~PERCENTAGE_REGEXP(x.str)
       THEN Thrown("TypeError", "\"" \o x.str
              \o "\" is invalid position; string positions must be of format '[0-9]+%'")
       ELSE Returned(x)
  ELSE IF x.typeof = "number" THEN Returned(x)
  ELSE Returned(JSNum(default))

----------------------------------------------------------------------------
(* normalizeText *)

\* A TextChild is a string or number (Prim), an array of TextChild (Arr) or
\* a React element (Element); the tag stands for what typeof, Array.isArray
\* and React.isValidElement tell apart at run time.
Prim(v) == [tag |-> "prim", val |-> v]
Arr(items) == [tag |-> "array", items |-> items]
Element(type, props) == [tag |-> "element", type |-> type, props |-> props]

isValidElement(t) == t.tag = "element"
isTextBullet(el) == el.type = "text-bullet"
isTextLink(el) == el.type = "text-link"

\* util.isReactElementOrElementArray: an element, or an array of elements
isReactElementOrElementArray(t) ==
  \/ isValidElement(t)
  \/ /\ t.tag = "array"
     /\ \A i \in 1..Len(t.items) : isValidElement(t.items[i])

RECURSIVE flattenChildren(_)
\* util.flattenChildren: the flat ordered list of the elements, strings and
\* numbers of a child value; null, undefined and booleans are dropped
flattenChildren(t) ==
  IF t.tag = "array"
  THEN IF t.items = <<>> THEN <<>>
       ELSE flattenChildren(Head(t.items)) \o flattenChildren(Arr(Tail(t.items)))
  ELSE IF t.tag = "prim" /\ t.val.typeof \notin {"string", "number"} THEN <<>>
  ELSE <<t>>

\* style || {}
StyleOrEmpty(props) == IF "style" \in DOMAIN props THEN props.style ELSE EmptyObject

\* style?.color ? normalizeHexColor(style.color) : undefined
NormalizedColor(props) ==
  IF "style" \in DOMAIN props /\ Truthy(Get(props.style, "color"))
  THEN JSStr(normalizeHexColor(props.style.color.str))
  ELSE Undefined

\* { ...(style || {}), color: normalizedParentColor }
StyleWithColor(props) == Spread(StyleOrEmpty(props), [color |-> NormalizedColor(props)])

\* bullet = Object.keys(bulletProps).length ? bulletProps : true
bulletOf(props) ==
  LET bulletProps == Rest(props, {"children", "style", "rtlMode", "lang"})
  IN IF DOMAIN bulletProps # {} THEN bulletProps ELSE JSTrue

\* a variant that sets breakLine before the spread of childPart, so that a
\* breakLine the child part carries wins
childPartOf_BreakLineBeforeSpread(props, childPart, index, length) ==
  Spread(
    Spread([rtlMode |-> Get(props, "rtlMode"),
            lang |-> Get(props, "lang"),
            bullet |-> IF index = 0 THEN bulletOf(props) ELSE Undefined,
            breakLine |-> JSBool(index + 1 >= length)],
           childPart),
    [style |-> Spread(StyleWithColor(props), childPart.style)])

\* the object built for the child part at index (0-based) of length parts:
\* { rtlMode, lang, bullet: ..., ...childPart, style: {...}, breakLine: ... }
childPartOf(props, childPart, index, length) ==
  Spread(
    Spread([rtlMode |-> Get(props, "rtlMode"),
            lang |-> Get(props, "lang"),
            bullet |-> IF index = 0 THEN bulletOf(props) ELSE Undefined],
           childPart),
    [style |-> Spread(StyleWithColor(props), childPart.style),
     breakLine |-> JSBool(index + 1 >= length)])

\* the link of an element that is not a bullet
linkOf(el) ==
  IF isTextLink(el)
  THEN IF "url" \in DOMAIN el.props
       THEN [url |-> el.props.url, tooltip |-> Get(el.props, "tooltip")]
       ELSE IF Truthy(Get(el.props, "slide"))
       THEN [slide |-> el.props.slide, tooltip |-> Get(el.props, "tooltip")]
       ELSE Undefined
  ELSE Undefined

\* the run of an element that is not a bullet
elementPart(el) ==
  [text |-> el.props.children,
   rtlMode |-> Get(el.props, "rtlMode"),
   lang |-> Get(el.props, "lang"),
   link |-> linkOf(el),
   style |-> StyleWithColor(el.props)]

\* the run of a string or a number
plainPart(v) == [text |-> JSStr(toString(v)), style |-> EmptyObject]

\* a variant that puts the new parts first
ConcatParts_Prepend(textParts, parts) == parts \o textParts

\* textParts.concat(parts)
ConcatParts(textParts, parts) == textParts \o parts

\* what follows a call that may throw: F on the value it returned, or the
\* error it threw, passed on to the caller
OnReturn(r, F(_)) == IF r.ok THEN F(r.value) ELSE r

\* normalizedChildren.map((childPart, index) => ...)
childPartsOf(props, normalizedChildren) ==
  [i \in 1..Len(normalizedChildren) |->
     childPartOf(props, normalizedChildren[i], i - 1, Len(normalizedChildren))]

RECURSIVE normalizeText(_), ReduceElements(_, _), ReduceArray(_, _)

\* flattenChildren(t).reduce((textParts, el) => ..., []) ; a throw inside
\* ends the reduce
ReduceElements(els, textParts) ==
  IF els = <<>> THEN Returned(textParts)
  ELSE IF isValidElement(Head(els))
  THEN IF isTextBullet(Head(els))
       THEN OnReturn(normalizeText(Head(els).props.children),
              LAMBDA normalizedChildren :
                ReduceElements(Tail(els),
                  ConcatParts(textParts,
                              childPartsOf(Head(els).props, normalizedChildren))))
       ELSE ReduceElements(Tail(els), ConcatParts(textParts, <<elementPart(Head(els))>>))
  ELSE ReduceElements(Tail(els), ConcatParts(textParts, <<plainPart(Head(els).val)>>))

\* t.reduce((prev, cur) => prev.concat(normalizeText(cur)), [])
ReduceArray(items, prev) ==
  IF items = <<>> THEN Returned(prev)
  ELSE OnReturn(normalizeText(Head(items)),
         LAMBDA cur : ReduceArray(Tail(items), ConcatParts(prev, cur)))

normalizeText(t) ==
  IF isReactElementOrElementArray(t)
  THEN ReduceElements(flattenChildren(t), <<>>)
  ELSE IF t.tag = "array"
  THEN ReduceArray(t.items, <<>>)
  ELSE IF t.val.typeof \in {"number", "string"}
  THEN Returned(<<plainPart(t.val)>>)
  ELSE Thrown("TypeError",
         "Invalid TextChild found; only strings/numbers/arrays of them are accepted")

----------------------------------------------------------------------------
(* normalizeSlideObject *)

DEFAULT_FONT_SIZE == 18
DEFAULT_FONT_FACE == "Arial"

isLine(node) == node.type = "line"
isText(node) == node.type = "text"
isTableCell(node) == node.type = "table-cell"
isImage(node) == node.type = "image"
isShape(node) == node.type = "shape"
isTable(node) == node.type = "table"

\* typeof src === "string" ? { kind: "path", path: src } : src
normalizeImageSrc(src) ==
  IF "typeof" \in DOMAIN src /\ src.typeof = "string"
  THEN [kind |-> "path", path |-> src.str]
  ELSE src

\* c ? normalizeHexColor(c) : null
HexColorOrNull(c) == IF Truthy(c) THEN JSStr(normalizeHexColor(c.str)) ELSE Null

\* v ?? d
Coalesce(v, d) == IF Nullish(v) THEN d ELSE v

\* a variant that lets a line through without a style
missingStyle_ExceptLine(node) == ~isLine(node) /\ "style" \notin DOMAIN node.props

\* !node.props.style : the node has no style object (a style object, when
\* there, is truthy)
missingStyle(node) == "style" \notin DOMAIN node.props

\* the four normalizeCoordinate calls, in the order x, y, w, h; the first
\* throw ends the function
normalizedCoordinatesOf(style) ==
  OnReturn(normalizeCoordinate(Get(style, "x"), 0), LAMBDA x :
    OnReturn(normalizeCoordinate(Get(style, "y"), 0), LAMBDA y :
      OnReturn(normalizeCoordinate(Get(style, "w"), 1), LAMBDA w :
        OnReturn(normalizeCoordinate(Get(style, "h"), 1), LAMBDA h :
          Returned([x |-> x, y |-> y, w |-> w, h |-> h])))))

\* node.props.children !== undefined ? normalizeText(node.props.children) : none
childrenText(props, none) ==
  IF "children" \in DOMAIN props THEN normalizeText(props.children) ELSE Returned(none)

\* the style of a text or table-cell node
textStyleOf(style, normalizedCoordinates) ==
  Spread(Spread(style, normalizedCoordinates),
         [color |-> HexColorOrNull(Get(style, "color")),
          fontFace |-> Coalesce(Get(style, "fontFace"), JSStr(DEFAULT_FONT_FACE)),
          fontSize |-> Coalesce(Get(style, "fontSize"), JSNum(DEFAULT_FONT_SIZE))])

\* the text and style fields of a text or table-cell node
normalizeTextType(node, normalizedCoordinates) ==
  OnReturn(childrenText(node.props, <<>>), LAMBDA text :
    Returned([text |-> text,
              style |-> textStyleOf(node.props.style, normalizedCoordinates)]))

\* the minimal text cell of a string cell
stringCell(cell) ==
  [kind |-> "text",
   text |-> <<[text |-> cell, style |-> EmptyObject]>>,
   style |-> [x |-> JSNum(0), y |-> JSNum(0), w |-> JSNum(0), h |-> JSNum(0),
              color |-> Null]]

\* the style of a shape
shapeStyleOf(style, normalizedCoordinates) ==
  Spread(normalizedCoordinates,
         [backgroundColor |->
            IF Truthy(Get(style, "backgroundColor"))
            THEN normalizeHexOrComplexColor(style.backgroundColor.str)
            ELSE Null,
          borderColor |-> HexColorOrNull(Get(style, "borderColor")),
          borderWidth |-> Coalesce(Get(style, "borderWidth"), Null)])

\* the style of a table
tableStyleOf(style, normalizedCoordinates) ==
  Spread(normalizedCoordinates,
         [borderColor |-> HexColorOrNull(Get(style, "borderColor")),
          borderWidth |-> Coalesce(Get(style, "borderWidth"), Null),
          margin |-> Coalesce(Get(style, "margin"), Null)])

\* the record of a line
lineOf(props) ==
  [kind |-> "line",
   x1 |-> Get(props, "x1"), y1 |-> Get(props, "y1"),
   x2 |-> Get(props, "x2"), y2 |-> Get(props, "y2"),
   style |-> [color |-> HexColorOrNull(Get(props.style, "color")),
              width |-> Coalesce(Get(props.style, "width"), Null)]]

RECURSIVE normalizeSlideObject(_), normalizeBox(_, _), normalizeRow(_, _),
          normalizeRows(_, _)

\* row.map((cell) => ...) : a string cell becomes a minimal text cell, any
\* other cell is normalized as a node
normalizeRow(row, done) ==
  IF row = <<>> THEN Returned(done)
  ELSE IF Head(row).tag = "prim"
  THEN normalizeRow(Tail(row), Append(done, stringCell(Head(row).val)))
  ELSE OnReturn(normalizeSlideObject(Head(row)),
         LAMBDA c : normalizeRow(Tail(row), Append(done, c)))

\* node.props.rows.map((row) => ...)
normalizeRows(rows, done) ==
  IF rows = <<>> THEN Returned(done)
  ELSE OnReturn(normalizeRow(Head(rows), <<>>),
         LAMBDA r : normalizeRows(Tail(rows), Append(done, r)))

\* normalizeSlideObject from the dispatch on the node's kind on, the
\* coordinates normalized
normalizeBox(node, normalizedCoordinates) ==
  IF isText(node)
  THEN OnReturn(normalizeTextType(node, normalizedCoordinates), LAMBDA tt :
         Returned(Spread([kind |-> "text"], tt)))
  ELSE IF isTableCell(node)
  THEN OnReturn(normalizeTextType(node, normalizedCoordinates), LAMBDA tt :
         Returned(Spread(Spread([kind |-> "text"], tt),
                         [colSpan |-> Get(node.props, "colSpan"),
                          rowSpan |-> Get(node.props, "rowSpan")])))
  ELSE IF isImage(node)
  THEN Returned(
         [kind |-> "image",
          src |-> normalizeImageSrc(node.props.src),
          style |-> Spread(normalizedCoordinates,
                           [sizing |-> Coalesce(Get(node.props.style, "sizing"), Null)])])
  ELSE IF isShape(node)
  THEN OnReturn(childrenText(node.props, Null), LAMBDA text :
         Returned([kind |-> "shape",
                   type |-> node.props.type,
                   text |-> text,
                   style |-> shapeStyleOf(node.props.style, normalizedCoordinates)]))
  ELSE IF isTable(node)
  THEN OnReturn(normalizeRows(node.props.rows, <<>>), LAMBDA normalized :
         Returned([kind |-> "table",
                   rows |-> normalized,
                   style |-> tableStyleOf(node.props.style, normalizedCoordinates)]))
  ELSE Thrown("Error", "unknown slide object")

normalizeSlideObject(node) ==
  IF missingStyle(node)
  THEN Thrown("TypeError", "A " \o node.type \o " object is missing style attribute")
  ELSE IF isLine(node)
  THEN IF "style" \notin DOMAIN node.props
       \* node.props.style.color : reading a property of undefined throws
       THEN Thrown("TypeError", "Cannot read properties of undefined (reading 'color')")
       ELSE Returned(lineOf(node.props))
  ELSE OnReturn(normalizedCoordinatesOf(node.props.style),
         LAMBDA normalizedCoordinates : normalizeBox(node, normalizedCoordinates))

----------------------------------------------------------------------------
(* normalizeSlide, normalizeMasterSlide, normalizeJsx *)

RECURSIVE normalizeObjects(_, _)
\* flattenChildren(props.children).map(normalizeSlideObject).filter(isPresent)
\* : normalizeSlideObject never returns null, so the filter keeps every node
normalizeObjects(nodes, done) ==
  IF nodes = <<>> THEN Returned(done)
  ELSE OnReturn(normalizeSlideObject(Head(nodes)),
         LAMBDA o : normalizeObjects(Tail(nodes), Append(done, o)))

\* props?.style?.backgroundColor ? normalizeHexOrComplexColor(...) : null
backgroundColorOf(props) ==
  IF "style" \in DOMAIN props /\ Truthy(Get(props.style, "backgroundColor"))
  THEN normalizeHexOrComplexColor(props.style.backgroundColor.str)
  ELSE Null

\* props?.style?.backgroundImage ?? null
backgroundImageOf(props) ==
  IF "style" \in DOMAIN props /\ "backgroundImage" \in DOMAIN props.style
  THEN props.style.backgroundImage
  ELSE Null

\* if (props.children) : an array or an element is truthy, a primitive is
\* as ToBoolean says, no children is undefined
hasChildren(props) ==
  /\ "children" \in DOMAIN props
  /\ props.children.tag = "prim" => Truthy(props.children.val)

\* the objects of a slide: [] unless props.children is truthy
objectsOf(props) ==
  IF hasChildren(props)
  THEN normalizeObjects(flattenChildren(props.children), <<>>)
  ELSE Returned(<<>>)

normalizeSlide(el) ==
  OnReturn(objectsOf(el.props), LAMBDA objects :
    Returned([masterName |-> Coalesce(Get(el.props, "masterName"), Null),
              hidden |-> Coalesce(Get(el.props, "hidden"), JSBool(FALSE)),
              backgroundColor |-> backgroundColorOf(el.props),
              backgroundImage |-> backgroundImageOf(el.props),
              notes |-> Get(el.props, "notes"),
              objects |-> objects]))

normalizeMasterSlide(el) ==
  OnReturn(objectsOf(el.props), LAMBDA objects :
    Returned([name |-> Get(el.props, "name"),
              backgroundColor |-> backgroundColorOf(el.props),
              backgroundImage |-> backgroundImageOf(el.props),
              objects |-> objects]))

\* children.filter((child) => child.type === type)
RECURSIVE filterType(_, _)
filterType(children, type) ==
  IF children = <<>> THEN <<>>
  ELSE IF Head(children).tag = "element" /\ Head(children).type = type
  THEN <<Head(children)>> \o filterType(Tail(children), type)
  ELSE filterType(Tail(children), type)

RECURSIVE mapNormalizeSlide(_, _)
mapNormalizeSlide(els, done) ==
  IF els = <<>> THEN Returned(done)
  ELSE OnReturn(normalizeSlide(Head(els)),
         LAMBDA r : mapNormalizeSlide(Tail(els), Append(done, r)))

RECURSIVE mapNormalizeMasterSlide(_, _)
mapNormalizeMasterSlide(els, done) ==
  IF els = <<>> THEN Returned(done)
  ELSE OnReturn(normalizeMasterSlide(Head(els)),
         LAMBDA r : mapNormalizeMasterSlide(Tail(els), Append(done, r)))

\* a variant in which the entry already there is kept
putEntry_KeepFirst(obj, slide) == Spread([k \in {toString(slide.name)} |-> slide], obj)

\* the object after one more entry [slide.name, slide]: the entry replaces
\* an earlier one of the same key
putEntry(obj, slide) == Spread(obj, [k \in {toString(slide.name)} |-> slide])

RECURSIVE fromEntries(_, _)
\* Object.fromEntries(masterSlides.map((slide) => [slide.name, slide]))
fromEntries(masterSlides, obj) ==
  IF masterSlides = <<>> THEN obj
  ELSE fromEntries(Tail(masterSlides), putEntry(obj, Head(masterSlides)))

\* the presentation before its children are looked at
presOf(props) ==
  [layout |-> Coalesce(Get(props, "layout"), JSStr("16x9")),
   masterSlides |-> EmptyObject,
   slides |-> <<>>,
   author |-> Get(props, "author"),
   company |-> Get(props, "company"),
   revision |-> Get(props, "revision"),
   subject |-> Get(props, "subject"),
   title |-> Get(props, "title")]

\* the slides, then the master slides, of the flattened children
presWith(pres, children) ==
  OnReturn(mapNormalizeSlide(filterType(children, "slide"), <<>>), LAMBDA slides :
    OnReturn(mapNormalizeMasterSlide(filterType(children, "master-slide"), <<>>),
      LAMBDA masterSlides :
        Returned(Spread(pres, [slides |-> slides,
                               masterSlides |-> fromEntries(masterSlides,
                                                            EmptyObject)]))))

normalizeJsx(el) ==
  IF ~hasChildren(el.props) THEN Returned(presOf(el.props))
  ELSE presWith(presOf(el.props), flattenChildren(el.props.children))

----------------------------------------------------------------------------
(* Inputs of the calls *)

\* the characters coordinate strings are made of
CoordChars == {"5", "0", "%", "-", "."}

RECURSIVE StringsOfLen(_)
StringsOfLen(n) ==
  IF n = 0 THEN {""}
  ELSE {s \o c : s \in StringsOfLen(n - 1), c \in CoordChars}

CoordStrings == UNION {StringsOfLen(n) : n \in 0..MaxStrLen}

CoordInputs ==
  {JSStr(s) : s \in CoordStrings} \cup {JSNum(n) : n \in {0, 50}}
    \cup {Null, Undefined}

CoordDefaults == {0, 1, 7}

\* the text children of the model
Red == ColorText(<<255, 0, 0>>, AlphaDen)
Teal == ColorText(<<18, 171, 205>>, AlphaDen)

PrimAtoms == {Prim(JSStr("a")), Prim(JSNum(1))}

LinkAtoms ==
  {Element("text-link", [children |-> JSStr("k"), url |-> JSStr("https://x")]),
   Element("text-link", [children |-> JSStr("l"), slide |-> JSNum(0),
                         tooltip |-> JSStr("tip"),
                         style |-> [color |-> JSStr(Red)]]),
   Element("text-link", [children |-> JSStr("m"), slide |-> JSNum(2),
                         rtlMode |-> JSBool(FALSE), lang |-> JSStr("en")]),
   Element("text-link", [children |-> JSStr("n"), url |-> JSStr("https://y"),
                         style |-> [bold |-> JSTrue]])}

Atoms == PrimAtoms \cup LinkAtoms

\* the props of a bullet other than children
BulletPacks ==
  {EmptyObject,
   [style |-> [color |-> JSStr(Teal), bold |-> JSBool(FALSE)],
    rtlMode |-> JSTrue, lang |-> JSStr("he")],
   [type |-> JSStr("number"), style |-> [bold |-> JSTrue]]}

Bullet(pack, children) == Element("text-bullet", [children |-> children] @@ pack)

RECURSIVE TuplesOfLen(_, _)
\* the sequences of n elements of S
TuplesOfLen(S, n) ==
  IF n = 0 THEN {<<>>}
  ELSE {Append(s, x) : s \in TuplesOfLen(S, n - 1), x \in S}

ArraysOver(S) == {Arr(s) : s \in UNION {TuplesOfLen(S, n) : n \in 0..MaxArrayLen}}

\* strings, numbers, links and flat arrays of them
Inner == Atoms \cup ArraysOver(Atoms)

Bullets1 == {Bullet(p, c) : p \in BulletPacks, c \in Inner}

\* a bullet alone, or with a string or a link before or after it
Besides == {Prim(JSStr("a")),
            Element("text-link", [children |-> JSStr("k"), url |-> JSStr("https://x")])}
Mixed ==
  {Arr(<<b>>) : b \in Bullets1}
    \cup {Arr(<<s, b>>) : s \in Besides, b \in Bullets1}
    \cup {Arr(<<b, s>>) : s \in Besides, b \in Bullets1}
    \cup {Arr(<<Prim(JSStr("a")), Arr(<<Prim(JSStr("b")), Prim(JSStr("c"))>>)>>)}

\* bullets whose content holds a bullet
Bullets2 == {Bullet(p, c) : p \in BulletPacks, c \in Bullets1 \cup Mixed}

\* values that are no TextChild
Invalid == {Prim(JSBool(TRUE)), Prim(Null), Arr(<<Prim(JSStr("a")), Prim(Undefined)>>)}

TextInputs == Inner \cup Bullets1 \cup Mixed \cup Bullets2 \cup Invalid

\* the visual nodes of the model: every kind, with and without a style
XValues == {JSNum(1), JSStr("50%"), JSStr("5.5%")}
StyleObjects ==
  {x @@ w @@ c :
     x \in {EmptyObject} \cup {[x |-> v] : v \in XValues},
     w \in {EmptyObject, [w |-> JSStr("100%")], [h |-> JSStr("tall")]},
     c \in {EmptyObject, [color |-> JSStr(Red), borderColor |-> JSStr(Teal)]}}
\* nothing, or the style key
StyleParts == {EmptyObject} \cup {[style |-> st] : st \in StyleObjects}

GoodCell == Element("table-cell", [children |-> Prim(JSStr("c")), colSpan |-> JSNum(2),
                                   style |-> [color |-> JSStr(Red)]])
BareCell == Element("table-cell", [children |-> Prim(JSStr("c"))])

\* the props of each kind of node other than style
NodeKinds ==
  {Element("text", [children |-> Prim(JSStr("a"))]),
   Element("text", EmptyObject),
   Element("table-cell", [children |-> Arr(<<Prim(JSStr("a")), Prim(JSNum(1))>>),
                          rowSpan |-> JSNum(2)]),
   Element("image", [src |-> JSStr("a.png")]),
   Element("image", [src |-> [kind |-> "data", data |-> "image/png;base64,AA"]]),
   Element("shape", [type |-> "rect"]),
   Element("shape", [type |-> "rect", children |-> Prim(JSStr("a"))]),
   Element("table", [rows |-> <<<<Prim(JSStr("s")), GoodCell>>>>]),
   Element("table", [rows |-> <<<<GoodCell>>, <<BareCell>>>>]),
   Element("line", [x1 |-> JSNum(0), y1 |-> JSNum(0), x2 |-> JSNum(1), y2 |-> JSNum(2)]),
   Element("slide", EmptyObject)}

WithProps(el, more) == Element(el.type, more @@ el.props)

SlideObjectInputs == {WithProps(k, st) : k \in NodeKinds, st \in StyleParts}

\* the top-level children of the model's presentations
TextNode == Element("text", [children |-> Prim(JSStr("a")), style |-> [x |-> JSNum(1)]])
LineNode == Element("line", [x1 |-> JSNum(0), y1 |-> JSNum(0), x2 |-> JSNum(1),
                             y2 |-> JSNum(1), style |-> [width |-> JSNum(2)]])
TopChildren ==
  {Element("slide", [masterName |-> JSStr("m1")]),
   Element("slide", [hidden |-> JSTrue, children |-> Arr(<<TextNode>>)]),
   Element("master-slide", [name |-> JSStr("m1"),
                            style |-> [backgroundColor |-> JSStr(Red)]]),
   Element("master-slide", [name |-> JSStr("m1"),
                            style |-> [backgroundColor |->
                                         JSStr(ColorText(<<0, 0, 0>>, 0))],
                            children |-> Arr(<<LineNode>>)]),
   Element("master-slide", [name |-> JSStr("m2")]),
   Element("master-slide", [name |-> JSStr("m1"),
                            children |-> Arr(<<Element("text", EmptyObject)>>)]),
   TextNode}

PresentationInputs ==
  {Element("presentation", [title |-> JSStr("t")])}
    \cup {Element("presentation", [children |-> Arr(cs)]) :
            cs \in UNION {TuplesOfLen(TopChildren, n) : n \in 0..MaxChildren}}

----------------------------------------------------------------------------
(* The caller *)

Init == fn = "idle" /\ arg = Undefined /\ ret = Undefined

CallNormalizeCoordinate ==
  /\ fn = "idle"
  /\ \E x \in CoordInputs, d \in CoordDefaults :
       /\ fn' = "normalizeCoordinate"
       /\ arg' = [x |-> x, default |-> d]
       /\ ret' = normalizeCoordinate(x, d)

CallNormalizeHexOrComplexColor ==
  /\ fn = "idle"
  /\ \E s \in ColorStrings :
       /\ fn' = "normalizeHexOrComplexColor"
       /\ arg' = [colorString |-> s]
       /\ ret' = normalizeHexOrComplexColor(s)

CallNormalizeText ==
  /\ fn = "idle"
  /\ \E t \in TextInputs :
       /\ fn' = "normalizeText"
       /\ arg' = [t |-> t]
       /\ ret' = normalizeText(t)

CallNormalizeSlideObject ==
  /\ fn = "idle"
  /\ \E node \in SlideObjectInputs :
       /\ fn' = "normalizeSlideObject"
       /\ arg' = [node |-> node]
       /\ ret' = normalizeSlideObject(node)

CallNormalizeJsx ==
  /\ fn = "idle"
  /\ \E el \in PresentationInputs :
       /\ fn' = "normalizeJsx"
       /\ arg' = [el |-> el]
       /\ ret' = normalizeJsx(el)

Return ==
  /\ fn # "idle"
  /\ fn' = "idle" /\ arg' = Undefined /\ ret' = Undefined

Next ==
  \/ CallNormalizeCoordinate
  \/ CallNormalizeHexOrComplexColor
  \/ CallNormalizeText
  \/ CallNormalizeSlideObject
  \/ CallNormalizeJsx
  \/ Return

Spec == Init /\ [][Next]_vars

----------------------------------------------------------------------------
(* Properties: normalizeCoordinate *)

\* the strings made of one or more decimal digits followed by a single "%"
DigitStrings ==
  UNION {[1..n -> {"0", "1", "2", "3", "4", "5", "6", "7", "8", "9"}] : n \in 1..MaxStrLen}
RECURSIVE Join(_)
Join(cs) == IF Len(cs) = 0 THEN "" ELSE Head(cs) \o Join(Tail(cs))
DigitsThenPercent == {Join(d) \o "%" : d \in DigitStrings}

\* C5: normalizeCoordinate(x, d) returns a number x unchanged, returns a
\* string x unchanged when it is digits followed by one "%", throws the
\* invalid-position error naming x for every other string, and returns d
\* when x is null or undefined; a result is a number or a string ^\d+%$.
C5_CoordinateContract ==
  fn = "normalizeCoordinate" =>
    LET x == arg.x IN
    /\ x.typeof = "number" => ret.ok /\ ret.value = x
    /\ (x.typeof = "string" /\ x.str \in DigitsThenPercent) => ret.ok /\ ret.value = x
    /\ (x.typeof = "string" /\ x.str \notin DigitsThenPercent) =>
         /\ ~ret.ok
         /\ ret.error = "TypeError"
         /\ SubSeq(ret.message, 1, Len(x.str) + 2) = "\"" \o x.str \o "\""
         /\ SubSeq(ret.message, Len(x.str) + 3, Len(x.str) + 22) = " is invalid position"
    /\ (x = Null \/ x = Undefined) => ret.ok /\ ret.value = JSNum(arg.default)
    /\ ret.ok =>
         \/ ret.value.typeof = "number"
         \/ ret.value.typeof = "string" /\ ret.value.str \in DigitsThenPercent

\* a string without "%" was refused and named in the error
C5_Witness ==
  /\ fn = "normalizeCoordinate"
  /\ arg.x = JSStr("50")
  /\ ~ret.ok
  /\ SubSeq(ret.message, 1, 4) = "\"50\""

----------------------------------------------------------------------------
(* Properties: normalizeHexOrComplexColor *)

HexChars == {"0", "1", "2", "3", "4", "5", "6", "7", "8", "9",
             "A", "B", "C", "D", "E", "F"}
IsHexColor(s) == Len(s) = 6 /\ \A i \in 1..6 : SubSeq(s, i, i) \in HexChars

\* C6 as stated: alpha equals round(100 * (1 - a)), the nearest integer with
\* ties rounded as Math.round rounds them, and the result is the bare hex
\* string when a = 1.
C6_AlphaIsRoundOfInverse ==
  fn = "normalizeHexOrComplexColor" =>
    LET a == Color(arg.colorString).alpha IN
    /\ a = AlphaDen => ret.typeof = "string" /\ IsHexColor(ret.str)
    /\ a # AlphaDen =>
         /\ ret.typeof = "object"
         /\ ret.alpha = MathRound(100 * (AlphaDen - a), AlphaDen)
         /\ ret.alpha \in 0..100

\* C6 amended: alpha is 100 - round(100 * a): the integer k in [0,100] with
\* 100(1-a) - 1/2 <= k < 100(1-a) + 1/2, that is 100 * (1 - a) rounded to
\* the nearest integer with a tie rounded down; the result is the bare hex
\* string when a = 1, and a = 1/4 gives 75.
C6_AlphaIsInverseOfRound ==
  fn = "normalizeHexOrComplexColor" =>
    LET a == Color(arg.colorString).alpha IN
    /\ a = AlphaDen => ret.typeof = "string" /\ IsHexColor(ret.str)
    /\ a # AlphaDen =>
         /\ ret.typeof = "object"
         /\ ret.type = "solid"
         /\ IsHexColor(ret.color)
         /\ ret.alpha \in 0..100
         /\ 2 * AlphaDen * ret.alpha >= 200 * (AlphaDen - a) - AlphaDen
         /\ 2 * AlphaDen * ret.alpha < 200 * (AlphaDen - a) + AlphaDen
         /\ 4 * a = AlphaDen => ret.alpha = 75

\* a translucent colour whose 100 * a is an integer and a half (a tie, here
\* a = 1/8) was normalized: 100 - round(12.5) = 87
C6_Witness ==
  /\ fn = "normalizeHexOrComplexColor"
  /\ LET a == Color(arg.colorString).alpha IN
       /\ 8 * a = AlphaDen
       /\ (200 * a) % AlphaDen = 0
       /\ ((200 * a) \div AlphaDen) % 2 = 1
       /\ ret.typeof = "object"
       /\ ret.alpha = 87

----------------------------------------------------------------------------
(* Properties: normalizeText *)

IsBulletCall ==
  /\ fn = "normalizeText"
  /\ arg.t.tag = "element"
  /\ isTextBullet(arg.t)
  /\ ret.ok
  /\ Len(ret.value) >= 1

IsLinkCall ==
  /\ fn = "normalizeText"
  /\ arg.t.tag = "element"
  /\ isTextLink(arg.t)

\* the runs of the bullet's nested content, before the bullet restyles them
NestedRuns == normalizeText(arg.t.props.children).value

HasBullet(run) == Get(run, "bullet") # Undefined

\* C2: of the runs emitted for a bullet, exactly the first carries a bullet
\* marker value.
C2_BulletOnFirstRunOnly ==
  IsBulletCall =>
    /\ HasBullet(ret.value[1])
    /\ \A i \in 2..Len(ret.value) : ~HasBullet(ret.value[i])

\* C3: of the N runs emitted for a bullet, the last has breakLine = true and
\* each of the N-1 before it has breakLine = false, whatever breakLine the
\* nested runs carried.
C3_BreakLineOnLastRunOnly ==
  IsBulletCall =>
    /\ Len(ret.value) = Len(NestedRuns)
    /\ \A i \in 1..Len(ret.value) :
         /\ "breakLine" \in DOMAIN ret.value[i]
         /\ ret.value[i].breakLine = JSBool(i = Len(ret.value))

\* a bullet whose nested runs already carried breakLine = true before the
\* last one (an inner bullet followed by more text)
C3_Witness ==
  /\ IsBulletCall
  /\ Len(ret.value) >= 2
  /\ \E i \in 1..(Len(NestedRuns) - 1) : Get(NestedRuns[i], "breakLine") = JSTrue
  /\ ret.value[1].breakLine = JSBool(FALSE)

StyleKeys == {"color", "bold"}

\* the bullet marker's style value for key k, its color canonicalized
BulletStyleValue(props, k) ==
  IF k = "color" THEN NormalizedColor(props) ELSE Get(StyleOrEmpty(props), k)

\* C4: for every run nested in a bullet and every style key, the emitted
\* value is the nested run's own value when it specifies one and otherwise
\* the bullet's (color-canonicalized) value, for plain runs and link runs.
C4_BulletStyleFillsGaps ==
  IsBulletCall =>
    \A i \in 1..Len(ret.value) : \A k \in StyleKeys :
      LET own == Get(NestedRuns[i].style, k) IN
      Get(ret.value[i].style, k) =
        IF own # Undefined THEN own ELSE BulletStyleValue(arg.t.props, k)

\* C9: for every run nested in a bullet, the emitted rtlMode (lang) is the
\* nested run's own value when it has one and otherwise the bullet's.
C9_BulletRtlModeLangPropagate ==
  IsBulletCall =>
    \A i \in 1..Len(ret.value) : \A k \in {"rtlMode", "lang"} :
      LET own == Get(NestedRuns[i], k) IN
      Get(ret.value[i], k) = IF own # Undefined THEN own ELSE Get(arg.t.props, k)

\* C10: a link marker yields exactly one run, whose link is {url, tooltip}
\* for a url target and {slide, tooltip} for a slide target, whatever the
\* slide index.
C10_LinkRunCarriesLink ==
  IsLinkCall =>
    /\ ret.ok
    /\ Len(ret.value) = 1
    /\ "url" \in DOMAIN arg.t.props =>
         ret.value[1].link = [url |-> arg.t.props.url,
                              tooltip |-> Get(arg.t.props, "tooltip")]
    /\ ("url" \notin DOMAIN arg.t.props /\ "slide" \in DOMAIN arg.t.props) =>
         ret.value[1].link = [slide |-> arg.t.props.slide,
                              tooltip |-> Get(arg.t.props, "tooltip")]

RECURSIVE ValidTextChild(_)
\* strings, numbers, link and bullet markers, and arrays of them
ValidTextChild(t) ==
  CASE t.tag = "prim" -> t.val.typeof \in {"string", "number"}
    [] t.tag = "array" -> \A i \in 1..Len(t.items) : ValidTextChild(t.items[i])
    [] t.tag = "element" ->
         IF isTextBullet(t) THEN ValidTextChild(t.props.children) ELSE TRUE

RECURSIVE Leaves(_)
\* the texts of the leaves of t, depth first and left to right
Leaves(t) ==
  CASE t.tag = "prim" -> <<toString(t.val)>>
    [] t.tag = "array" ->
         IF t.items = <<>> THEN <<>>
         ELSE Leaves(Head(t.items)) \o Leaves(Arr(Tail(t.items)))
    [] t.tag = "element" ->
         IF isTextBullet(t) THEN Leaves(t.props.children)
         ELSE <<t.props.children.str>>

RECURSIVE RunsOfEach(_)
\* the runs of each element of an array, one after the other
RunsOfEach(items) ==
  IF items = <<>> THEN <<>>
  ELSE normalizeText(Head(items)).value \o RunsOfEach(Tail(items))

\* C8: for every valid TextChild the runs are those of the leaves in depth
\* first, left to right order, none dropped, duplicated or reordered, and
\* the runs of an array are the runs of its elements in order.
C8_RunsInDocumentOrder ==
  (fn = "normalizeText" /\ ValidTextChild(arg.t)) =>
    /\ ret.ok
    /\ Len(ret.value) = Len(Leaves(arg.t))
    /\ \A i \in 1..Len(ret.value) : ret.value[i].text.str = Leaves(arg.t)[i]
    /\ arg.t.tag = "array" => ret.value = RunsOfEach(arg.t.items)

\* ["a", ["b", "c"]] gave the runs a, b, c
C8_Witness ==
  /\ fn = "normalizeText"
  /\ arg.t = Arr(<<Prim(JSStr("a")), Arr(<<Prim(JSStr("b")), Prim(JSStr("c"))>>)>>)
  /\ ret.ok
  /\ Len(ret.value) = 3
  /\ ret.value[1].text.str = "a"
  /\ ret.value[2].text.str = "b"
  /\ ret.value[3].text.str = "c"

----------------------------------------------------------------------------
(* Properties: normalizeSlideObject *)

\* the missing-style error, its message naming the node's type
IsMissingStyleError(r, type) ==
  /\ ~r.ok
  /\ r.error = "TypeError"
  /\ r.message = "A " \o type \o " object is missing style attribute"

\* C1 as stated: the call fails with the missing-style error exactly when
\* the node is not a line and has no style, and a line is normalized to a
\* kind "line" record whether or not it has a style.
C1_StyleRequiredExceptLine ==
  fn = "normalizeSlideObject" =>
    LET node == arg.node IN
    /\ IsMissingStyleError(ret, node.type)
         <=> (node.type # "line" /\ "style" \notin DOMAIN node.props)
    /\ node.type = "line" => ret.ok /\ ret.value.kind = "line"

\* C1 amended: every kind of node, line included, requires a style: the
\* call fails with the missing-style error naming the node's type exactly
\* when the node has no style, and a line that has a style is normalized
\* to a kind "line" record.
C1_StyleRequiredForEveryKind ==
  fn = "normalizeSlideObject" =>
    LET node == arg.node IN
    /\ IsMissingStyleError(ret, node.type) <=> "style" \notin DOMAIN node.props
    /\ (node.type = "line" /\ "style" \in DOMAIN node.props) =>
         ret.ok /\ ret.value.kind = "line"

\* a line without a style was refused with the missing-style error
C1_Witness ==
  /\ fn = "normalizeSlideObject"
  /\ arg.node.type = "line"
  /\ "style" \notin DOMAIN arg.node.props
  /\ IsMissingStyleError(ret, "line")

----------------------------------------------------------------------------
(* Properties: normalizeJsx *)

\* the top-level children of the presentation, in declaration order
TopLevel == IF "children" \in DOMAIN arg.el.props
            THEN arg.el.props.children.items ELSE <<>>
MasterIndexes == {i \in 1..Len(TopLevel) : TopLevel[i].type = "master-slide"}
MasterNames == {TopLevel[i].props.name.str : i \in MasterIndexes}
\* the index of the last master slide declared with this name
LastDeclared(name) ==
  CHOOSE i \in MasterIndexes :
    /\ TopLevel[i].props.name.str = name
    /\ \A j \in MasterIndexes : TopLevel[j].props.name.str = name => j <= i

\* C7: masterSlides has exactly one entry per distinct master-slide name,
\* equal to the normalization of the last master slide declared with that
\* name; slides and children of other types contribute no entry.
C7_MasterSlidesLastWriteWins ==
  (fn = "normalizeJsx" /\ ret.ok) =>
    /\ DOMAIN ret.value.masterSlides = MasterNames
    /\ \A name \in MasterNames :
         ret.value.masterSlides[name] =
           normalizeMasterSlide(TopLevel[LastDeclared(name)]).value

\* two master slides of one name and different content were declared, with
\* a slide or another child beside them, and the later one is the entry
C7_Witness ==
  /\ fn = "normalizeJsx"
  /\ ret.ok
  /\ \E i, j \in MasterIndexes :
       /\ i < j
       /\ TopLevel[i].props.name = TopLevel[j].props.name
       /\ TopLevel[i] # TopLevel[j]
       /\ j = LastDeclared(TopLevel[j].props.name.str)
       /\ ret.value.masterSlides[TopLevel[j].props.name.str]
            = normalizeMasterSlide(TopLevel[j]).value
       /\ ret.value.masterSlides[TopLevel[j].props.name.str]
            # normalizeMasterSlide(TopLevel[i]).value
  /\ \E k \in 1..Len(TopLevel) : k \notin MasterIndexes

====
